---- MODULE Spec2Model ----
(***************************************************************************)
(* A model of the PubMatic RTD provider (modules/pubmaticRtdProvider.ts):  *)
(* the two fetch chains started by init, the timeout race, the floor       *)
(* configuration merge, the one-shot gate configMergedPromise and the      *)
(* bid-request enrichment of getBidRequestData.                            *)
(*                                                                         *)
(* Time is counted in ticks of 1000 ms.  JavaScript's run-to-completion    *)
(* scheduling is kept: a promise reaction that is ready (a microtask) runs *)
(* before any timer, any network completion and any advance of time.       *)
(***************************************************************************)
EXTENDS Integers, Sequences, FiniteSets, TLC

VARIABLES
  fetches,                 \* the fetchData chains, in the order they were started
  merges,                  \* the .then handlers of init (one per init that returned true)
  auctions,                \* the getBidRequestData calls
  sinceInit,               \* Date.now() - initTime, in ticks (saturating)
  fetchFloorRulesPromise,  \* _fetchFloorRulesPromise: index into fetches, 0 is null
  fetchConfigPromise,      \* _fetchConfigPromise: index into fetches, 0 is null
  configMergedPromise,     \* "pending" or "resolved"
  country,                 \* _country
  confFloors,              \* conf.getConfig('floors')
  auctionDelay,            \* conf.getConfig('realTimeData').auctionDelay
  setConfigCalls,          \* history: calls of conf.setConfig that returned
  initCalls,               \* history: calls of init
  lastInit,                \* history: arguments and result of the latest init call
  call,                    \* the arguments of a function applied on its own
  ret                      \* what is seen of it: its result, the fetch() calls it made

vars == <<fetches, merges, auctions, sinceInit, fetchFloorRulesPromise,
          fetchConfigPromise, configMergedPromise, country, confFloors,
          auctionDelay, setConfigCalls, initCalls, lastInit, call, ret>>

moduleVars == <<fetches, merges, auctions, sinceInit, fetchFloorRulesPromise,
                fetchConfigPromise, configMergedPromise, country, confFloors,
                auctionDelay, setConfigCalls, initCalls, lastInit>>

(***************************************************************************)
(* JavaScript values.  Every value is a record tagged with its type; an    *)
(* object is a function from its own keys to values, a missing key reads   *)
(* as undefined.                                                           *)
(***************************************************************************)
Undefined == [t |-> "undefined"]
Null == [t |-> "null"]
Bool(b) == [t |-> "boolean", b |-> b]
Num(n) == [t |-> "number", n |-> n]
Str(s) == [t |-> "string", s |-> s]
Arr(q) == [t |-> "array", q |-> q]
Fun(name) == [t |-> "function", name |-> name]
Obj(f) == [t |-> "object", f |-> f]
NoKeys == [k \in {} |-> Undefined]
EmptyObj == Obj(NoKeys)

\* o[k], and o?.[k] when o is undefined or null
Get(o, k) == IF o.t = "object" /\ k \in DOMAIN o.f THEN o.f[k] ELSE Undefined

\* !!v
Truthy(v) ==
  CASE v.t = "undefined" -> FALSE
    [] v.t = "null" -> FALSE
    [] v.t = "boolean" -> v.b
    [] v.t = "number" -> v.n # 0
    [] v.t = "string" -> v.s # ""
    [] OTHER -> TRUE

\* a ?? b
Coalesce(a, b) == IF a.t \in {"undefined", "null"} THEN b ELSE a

\* the own enumerable keys copied by { ...v }
Spread(v) == IF v.t = "object" THEN v.f ELSE NoKeys

\* { ...a, ...b } on key maps: the later source wins
Assign(a, b) == [k \in DOMAIN a \cup DOMAIN b |-> IF k \in DOMAIN b THEN b[k] ELSE a[k]]

\* delete o[k] on a key map
DeleteMutant(f, k) == f
Delete(f, k) == [j \in DOMAIN f \ {k} |-> f[j]]

\* a primitive cannot take a property: an assignment to one throws in strict mode
IsPrimitive(v) == v.t \in {"boolean", "number", "string"}

isStr(v) == v.t = "string"
isFn(v) == v.t = "function"
isPlainObject(v) == v.t = "object"
isEmpty(v) == v.t \in {"undefined", "null"} \/ (v.t = "object" /\ DOMAIN v.f = {})

(***************************************************************************)
(* getFloorsConfig                                                         *)
(***************************************************************************)
defaultValueTemplate ==
  [currency |-> Str("USD"), skipRate |-> Num(0),
   schema |-> Obj([fields |-> Arr(<<"mediaType", "size">>)])]

additionalSchemaFields ==
  Obj([deviceType |-> Fun("getDeviceType"), timeOfDay |-> Fun("getCurrentTimeOfDay"),
       browser |-> Fun("getBrowserType"), os |-> Fun("getOs"),
       utm |-> Fun("getUtm"), country |-> Fun("getCountry")])

Return(v) == [threw |-> FALSE, value |-> v]
Throw == [threw |-> TRUE, value |-> Undefined]

\* config.skipRate !== undefined
SkipRateMutant(config) == Truthy(Get(Obj(config), "skipRate"))
SkipRateProvided(config) == Get(Obj(config), "skipRate") # Undefined

\* !dynamicFloors?.enabled || !dynamicFloors?.config
PluginOffMutant(dynamicFloors) == ~Truthy(Get(dynamicFloors, "config"))
PluginOff(dynamicFloors) ==
  ~Truthy(Get(dynamicFloors, "enabled")) \/ ~Truthy(Get(dynamicFloors, "config"))

\* conf.getConfig('floors') ?? {}, with a truthy endpoint deleted
DefaultFloorConfig(pageFloors) ==
  LET c == Spread(Coalesce(pageFloors, EmptyObj))
  IN IF Truthy(Get(Obj(c), "endpoint")) THEN Delete(c, "endpoint") ELSE c

\* conf.getConfig('floors') hands out the object the configuration store holds,
\* not a copy of it (src/config.js reads it with deepAccess)
getConfigReturnsStored == TRUE

\* the floors object of the store once getFloorsConfig has run: the delete of
\* lines 333-335 acts on it, after the profile check and before the plugin check
StoredFloors(profileConfigs, pageFloors) ==
  IF ~isPlainObject(profileConfigs) \/ isEmpty(profileConfigs)
  THEN pageFloors
  ELSE IF getConfigReturnsStored /\ Truthy(Get(pageFloors, "endpoint"))
       THEN Obj(Delete(pageFloors.f, "endpoint"))
       ELSE pageFloors

\* pageFloors is what conf.getConfig('floors') returns at the call
getFloorsConfig(floorsData, profileConfigs, pageFloors) ==
  IF ~isPlainObject(profileConfigs) \/ isEmpty(profileConfigs)
  THEN Return(Undefined)
  ELSE
    LET defaultFloorConfig == DefaultFloorConfig(pageFloors)
        dynamicFloors == Get(Get(profileConfigs, "plugins"), "dynamicFloors")
    IN IF PluginOff(dynamicFloors)
       THEN Return(Undefined)
       ELSE
         LET config0 == Spread(Get(dynamicFloors, "config"))
             defaultValues == Coalesce(Get(Obj(config0), "defaultValues"), EmptyObj)
             fallback == Obj(Assign(defaultValueTemplate,
                                    [values |-> Obj(Spread(defaultValues))]))
             finalFloorsData0 == Coalesce(floorsData, fallback)
             config == Delete(config0, "defaultValues")
         IN IF SkipRateProvided(config) /\ IsPrimitive(finalFloorsData0)
            THEN Throw
            ELSE
              LET finalFloorsData ==
                    IF SkipRateProvided(config)
                    THEN Obj(Assign(Spread(finalFloorsData0),
                                    [skipRate |-> config["skipRate"]]))
                    ELSE finalFloorsData0
              IN Return(Obj([floors |->
                   Obj(Assign(Assign(defaultFloorConfig, config),
                              [data |-> finalFloorsData,
                               additionalSchemaFields |-> additionalSchemaFields]))]))

(***************************************************************************)
(* The values the model draws its inputs from.                             *)
(***************************************************************************)
FloorsA ==
  Obj([currency |-> Str("EUR"), skipRate |-> Num(50),
       schema |-> Obj([fields |-> Arr(<<"mediaType">>)]),
       values |-> Obj([banner |-> Num(3)])])
FloorsNoSkip ==
  Obj([currency |-> Str("EUR"), values |-> Obj([banner |-> Num(3)])])

\* the dynamicFloors.config objects of an enabled plugin
PluginConfigs ==
  {Obj([skipRate |-> Num(0), defaultValues |-> Obj([banner |-> Num(1)]),
        enforcement |-> Str("profile")]),
   Obj([skipRate |-> Num(20), floorMin |-> Num(2)]),
   Obj([defaultValues |-> Obj([banner |-> Num(1), video |-> Num(2)]),
        floorMin |-> Num(2)]),
   Obj([data |-> Str("plugin"), additionalSchemaFields |-> EmptyObj,
        enforcement |-> Str("profile")]),
   EmptyObj}

Profile(dynamicFloors) == Obj([plugins |-> Obj([dynamicFloors |-> dynamicFloors])])

EnabledProfiles ==
  {Profile(Obj([enabled |-> Bool(TRUE), config |-> c])) : c \in PluginConfigs}

\* the profile configurations getFloorsConfig fails closed on
OffProfiles ==
  {Undefined, Null, Str("oops"), Arr(<<>>), EmptyObj,
   Obj([plugins |-> EmptyObj]),
   Obj([other |-> Num(1)]),
   Profile(Obj([enabled |-> Bool(FALSE),
                config |-> Obj([skipRate |-> Num(20)])])),
   Profile(Obj([config |-> Obj([skipRate |-> Num(20)])])),
   Profile(Obj([enabled |-> Bool(TRUE)])),
   Profile(Obj([enabled |-> Bool(TRUE), config |-> Null]))}

Profiles == EnabledProfiles \cup OffProfiles

\* floors.json bodies; Num(7) is a body that is valid JSON and no object
FloorsDatas == {Undefined, Null, FloorsA, FloorsNoSkip, Num(7)}

PageFloors ==
  {Undefined,
   Obj([enforcement |-> Str("page"), floorMin |-> Num(1)]),
   Obj([endpoint |-> Obj([url |-> Str("https://floors.example")]),
        enforcement |-> Str("page"),
        data |-> Obj([currency |-> Str("JPY")])]),
   Obj([endpoint |-> Str(""), skipRate |-> Num(9)])}

(***************************************************************************)
(* The state after the module is loaded.                                   *)
(***************************************************************************)
NoCall == [op |-> "none"]
NoInit == [op |-> "none"]

ModuleLoaded ==
  /\ fetches = <<>>
  /\ merges = <<>>
  /\ auctions = <<>>
  /\ sinceInit = 0
  /\ fetchFloorRulesPromise = 0
  /\ fetchConfigPromise = 0
  /\ configMergedPromise = "pending"
  /\ country = Undefined
  /\ setConfigCalls = 0
  /\ initCalls = 0
  /\ lastInit = NoInit

(***************************************************************************)
(* getFloorsConfig on its own: the arguments are drawn, then it is applied.*)
(***************************************************************************)
InitMerge ==
  /\ ModuleLoaded
  /\ confFloors \in PageFloors
  /\ auctionDelay = Undefined
  /\ \E fd \in FloorsDatas, pc \in Profiles :
       call = [op |-> "getFloorsConfig", floorsData |-> fd, profileConfigs |-> pc]
  /\ ret = NoCall

ApplyGetFloorsConfig ==
  /\ call.op = "getFloorsConfig"
  /\ ret = NoCall
  /\ ret' = [op |-> "getFloorsConfig"] @@
            getFloorsConfig(call.floorsData, call.profileConfigs, confFloors)
  /\ confFloors' = StoredFloors(call.profileConfigs, confFloors)
  /\ UNCHANGED <<fetches, merges, auctions, sinceInit, fetchFloorRulesPromise,
                 fetchConfigPromise, configMergedPromise, country, auctionDelay,
                 setConfigCalls, initCalls, lastInit, call>>

NextMerge == ApplyGetFloorsConfig

SpecMerge == InitMerge /\ [][NextMerge]_vars

(***************************************************************************)
(* Bounds of the model.                                                    *)
(***************************************************************************)
MaxInits == 1        \* calls of init in one page load, over a network that can fail
MaxReinits == 2      \* calls of init in one page load, over a network that answers
MaxAuctions == 1     \* calls of getBidRequestData in one page load
MaxClock == 4        \* the clock saturates here; no budget of the model is larger
MaxRetries == 3      \* the largest retries argument of a fetchData called on its own

\* setTimeout(resolve, 1000): one tick
RETRY_DELAY == 1
\* retries = 2
DEFAULT_RETRIES == 2

Types == {"FLOORS", "CONFIGS"}

(***************************************************************************)
(* fetchData: a chain of attempts, one after another.                      *)
(***************************************************************************)
\* what one attempt can end in
Outcomes == {"ok", "network_error", "http_error", "bad_json"}

\* the country_code header: the comma-separated codes, none when it is absent
Headers == {<<>>, <<"IN", "US">>}

\* cc ? cc.split(',')?.map(code => code.trim())[0] : undefined
CountryOf(header) == IF header = <<>> THEN Undefined ELSE Str(header[1])

\* fetchData(publisherId, profileId, type, retries) up to its first await
fetchData(type, retries) ==
  [type |-> type, retries |-> retries, phase |-> "fetching", timer |-> 0,
   value |-> Undefined]

\* the promise of the outermost call settles; the frames of the chain are gone
Resolved(chain, v) ==
  [chain EXCEPT !.phase = "resolved", !.retries = 0, !.timer = 0, !.value = v]

\* if (retries > 0)
ShouldRetryMutant(retries) == retries >= 0
ShouldRetry(retries) == retries > 0

\* the catch block of fetchData
AttemptFailed(chain) ==
  IF ShouldRetry(chain.retries)
  THEN [chain EXCEPT !.phase = "backoff", !.timer = RETRY_DELAY]
  ELSE Resolved(chain, Undefined)

\* the try block of fetchData once fetch() has settled
AttemptSettled(chain, outcome, body) ==
  IF outcome = "ok"
  THEN Resolved(chain, body)
  ELSE AttemptFailed(chain)

\* response.ok held and the type is FLOORS: the header is read before json()
SetsCountryMutant(chain, outcome) == chain.type = "FLOORS"
SetsCountry(chain, outcome) ==
  chain.type = "FLOORS" /\ outcome \in {"ok", "bad_json"}

\* return fetchData(publisherId, profileId, type, retries - 1)
RetryAttempt(chain) ==
  [chain EXCEPT !.phase = "fetching", !.retries = @ - 1, !.timer = 0]

\* the response bodies of the two endpoints
FloorsBodies == {FloorsA, Num(7)}
ProfileBodies ==
  {Profile(Obj([enabled |-> Bool(FALSE), config |-> Obj([skipRate |-> Num(20)])])),
   Profile(Obj([enabled |-> Bool(TRUE),
                config |-> Obj([skipRate |-> Num(20), floorMin |-> Num(2)])]))}
Bodies(type) == IF type = "FLOORS" THEN FloorsBodies ELSE ProfileBodies

(***************************************************************************)
(* Scheduling.                                                             *)
(***************************************************************************)
MergeReady(m) ==
  \/ merges[m].phase = "awaitConfig" /\ fetches[merges[m].cfg].phase = "resolved"
  \/ merges[m].phase = "awaitFloors" /\ fetches[merges[m].floor].phase = "resolved"

AuctionReady(a) ==
  \/ auctions[a].phase = "awaitGate" /\ configMergedPromise = "resolved"
  \/ auctions[a].phase = "rejected"

\* a promise reaction is queued
MicrotaskPending ==
  \/ \E m \in DOMAIN merges : MergeReady(m)
  \/ \E a \in DOMAIN auctions : AuctionReady(a)

\* a timer has reached its time
TimerDue ==
  \/ \E i \in DOMAIN fetches : fetches[i].phase = "backoff" /\ fetches[i].timer = 0
  \/ \E m \in DOMAIN merges : merges[m].phase = "awaitFloors" /\ merges[m].timer = 0

(***************************************************************************)
(* init                                                                    *)
(***************************************************************************)
\* the values init is handed as params.publisherId and params.profileId
IdValues == {Undefined, Str(""), Num(123), Str("id")}
\* what the import of continueAuction yields
ContinueValues == {Fun("continueAuction"), Undefined}

\* the three checks of init that throw
ParamsOkMutant(publisherId, profileId, continueFn) ==
  Truthy(publisherId) /\ Truthy(profileId) /\ isFn(continueFn)
ParamsOk(publisherId, profileId, continueFn) ==
  /\ ~(~Truthy(publisherId) \/ ~isStr(publisherId))
  /\ ~(~Truthy(profileId) \/ ~isStr(profileId))
  /\ isFn(continueFn)

\* typeof auctionDelay === 'number' ? auctionDelay : 0, then Math.max(0.8 * auctionDelay, 0);
\* the delays of the model are multiples of 5 ticks, so 0.8 * auctionDelay is exact
MaxWaitTime(delay) ==
  LET d == IF delay.t = "number" THEN delay.n ELSE 0
      w == (4 * d) \div 5
  IN IF w > 0 THEN w ELSE 0

\* Math.max(maxWaitTime - elapsedTime, 0)
RemainingTime(delay, elapsed) ==
  LET r == MaxWaitTime(delay) - elapsed IN IF r > 0 THEN r ELSE 0

\* withTimeout: the timer it starts, -1 when it returns the promise itself
WithTimeoutTimerMutant(ms) == IF ms < 0 THEN -1 ELSE ms
WithTimeoutTimer(ms) == IF ms <= 0 THEN -1 ELSE ms

AuctionDelays == {Undefined, Num(5)}

init(publisherId, profileId, continueFn) ==
  /\ initCalls' = initCalls + 1
  /\ sinceInit' = 0
  /\ IF ParamsOk(publisherId, profileId, continueFn)
     THEN /\ fetches' = fetches \o <<fetchData("FLOORS", DEFAULT_RETRIES),
                                     fetchData("CONFIGS", DEFAULT_RETRIES)>>
          /\ fetchFloorRulesPromise' = Len(fetches) + 1
          /\ fetchConfigPromise' = Len(fetches) + 2
          /\ merges' = Append(merges,
               [cfg |-> Len(fetches) + 2, phase |-> "awaitConfig", floor |-> 0,
                timer |-> -1, budget |-> 0, waited |-> 0, merged |-> 0,
                path |-> "none"])
          /\ lastInit' = [publisherId |-> publisherId, profileId |-> profileId,
                          continueFn |-> continueFn, returned |-> TRUE]
     ELSE /\ lastInit' = [publisherId |-> publisherId, profileId |-> profileId,
                          continueFn |-> continueFn, returned |-> FALSE]
          /\ UNCHANGED <<fetches, fetchFloorRulesPromise, fetchConfigPromise, merges>>
  /\ UNCHANGED <<auctions, configMergedPromise, country, confFloors, auctionDelay,
                 setConfigCalls, call, ret>>

\* the calls of the host: valid arguments, and each way one argument can be wrong
InitArgs ==
  {<<p, Str("id"), Fun("continueAuction")>> : p \in IdValues}
    \cup {<<Str("id"), p, Fun("continueAuction")>> : p \in IdValues}
    \cup {<<Str("id"), Str("id"), c>> : c \in ContinueValues}

InitCall ==
  /\ initCalls < MaxInits
  /\ \E args \in InitArgs : init(args[1], args[2], args[3])

InitAgain ==
  /\ initCalls < MaxReinits
  /\ \E args \in InitArgs : init(args[1], args[2], args[3])

(***************************************************************************)
(* The .then handler init attaches to _fetchConfigPromise.                 *)
(***************************************************************************)
\* up to the await: the budget is computed and withTimeout is called
ThenConfigMutant(m) ==
  /\ merges[m].phase = "awaitConfig"
  /\ LET remainingTime == RemainingTime(auctionDelay, sinceInit)
     IN merges' = [merges EXCEPT ![m].phase = "awaitFloors",
                                 ![m].floor = fetchFloorRulesPromise,
                                 ![m].budget = remainingTime,
                                 ![m].timer = WithTimeoutTimer(remainingTime)]
  /\ UNCHANGED <<fetches, auctions, sinceInit, fetchFloorRulesPromise,
                 fetchConfigPromise, configMergedPromise, country, confFloors,
                 auctionDelay, setConfigCalls, initCalls, lastInit, call, ret>>
ThenConfig(m) ==
  /\ merges[m].phase = "awaitConfig"
  /\ fetches[merges[m].cfg].phase = "resolved"
  /\ LET remainingTime == RemainingTime(auctionDelay, sinceInit)
     IN merges' = [merges EXCEPT ![m].phase = "awaitFloors",
                                 ![m].floor = fetchFloorRulesPromise,
                                 ![m].budget = remainingTime,
                                 ![m].timer = WithTimeoutTimer(remainingTime)]
  /\ UNCHANGED <<fetches, auctions, sinceInit, fetchFloorRulesPromise,
                 fetchConfigPromise, configMergedPromise, country, confFloors,
                 auctionDelay, setConfigCalls, initCalls, lastInit, call, ret>>

\* the configMerged() calls of the handler: one, in its finally block
FinallyCallsMutant(failed) == IF failed THEN 0 ELSE 1
FinallyCalls(failed) == 1

\* after the await: getFloorsConfig, conf.setConfig, and configMerged() in finally
MergeStep(m, floorsData, setConfigThrows) ==
  LET profileConfigs == fetches[merges[m].cfg].value
      floorsConfig == getFloorsConfig(floorsData, profileConfigs, confFloors)
      writes == ~floorsConfig.threw /\ Truthy(floorsConfig.value)
      installs == writes /\ ~setConfigThrows
      failed == floorsConfig.threw \/ (writes /\ setConfigThrows)
      calls == FinallyCalls(failed)
  IN /\ confFloors' = IF installs THEN Get(floorsConfig.value, "floors")
                      ELSE StoredFloors(profileConfigs, confFloors)
     /\ setConfigCalls' = IF installs THEN setConfigCalls + 1 ELSE setConfigCalls
     /\ merges' = [merges EXCEPT ![m].phase = "done", ![m].timer = -1,
                                 ![m].budget = 0, ![m].waited = 0,
                                 ![m].merged = @ + calls,
                                 ![m].path =
                                   IF floorsConfig.threw THEN "getFloorsConfigThrew"
                                   ELSE IF ~writes THEN "nothingToMerge"
                                   ELSE IF setConfigThrows THEN "setConfigThrew"
                                   ELSE "installed"]
     /\ configMergedPromise' = IF calls > 0 THEN "resolved" ELSE configMergedPromise
     /\ UNCHANGED <<fetches, auctions, sinceInit, fetchFloorRulesPromise,
                    fetchConfigPromise, country, auctionDelay, initCalls, lastInit,
                    call, ret>>

\* the awaited promise settles with the value of the floors chain
AwaitFloorsValue(m) ==
  /\ merges[m].phase = "awaitFloors"
  /\ fetches[merges[m].floor].phase = "resolved"
  /\ \E setConfigThrows \in BOOLEAN :
       MergeStep(m, fetches[merges[m].floor].value, setConfigThrows)

\* the timer of withTimeout fires first: the race yields undefined
AwaitFloorsTimeoutMutant(m) ==
  /\ ~MicrotaskPending
  /\ merges[m].phase = "awaitFloors"
  /\ merges[m].timer = 0
  /\ \E setConfigThrows \in BOOLEAN, body \in FloorsBodies :
       MergeStep(m, body, setConfigThrows)
AwaitFloorsTimeout(m) ==
  /\ ~MicrotaskPending
  /\ merges[m].phase = "awaitFloors"
  /\ merges[m].timer = 0
  /\ \E setConfigThrows \in BOOLEAN : MergeStep(m, Undefined, setConfigThrows)

(***************************************************************************)
(* The network and the clock.                                              *)
(***************************************************************************)
FetchSettle(i, outcomes) ==
  /\ ~MicrotaskPending
  /\ fetches[i].phase = "fetching"
  /\ \E outcome \in outcomes, body \in Bodies(fetches[i].type), header \in Headers :
       /\ fetches' = [fetches EXCEPT ![i] = AttemptSettled(@, outcome, body)]
       /\ country' = IF SetsCountry(fetches[i], outcome) THEN CountryOf(header) ELSE country
       /\ ret' = IF call.op = "fetchData"
                 THEN [ret EXCEPT !.outcome = outcome, !.cc = header] ELSE ret
  /\ UNCHANGED <<merges, auctions, sinceInit, fetchFloorRulesPromise,
                 fetchConfigPromise, configMergedPromise, confFloors, auctionDelay,
                 setConfigCalls, initCalls, lastInit, call>>

RetryTimer(i) ==
  /\ ~MicrotaskPending
  /\ fetches[i].phase = "backoff"
  /\ fetches[i].timer = 0
  /\ fetches' = [fetches EXCEPT ![i] = RetryAttempt(@)]
  /\ ret' = IF call.op = "fetchData" THEN [ret EXCEPT !.attempts = @ + 1] ELSE ret
  /\ UNCHANGED <<merges, auctions, sinceInit, fetchFloorRulesPromise,
                 fetchConfigPromise, configMergedPromise, country, confFloors,
                 auctionDelay, setConfigCalls, initCalls, lastInit, call>>

Saturate(n) == IF n < MaxClock THEN n + 1 ELSE n

\* Date.now() - initTime is read by the handlers that still wait for their
\* config fetch and by nothing else; the model counts it while one of them exists
ElapsedWillBeRead == \E m \in DOMAIN merges : merges[m].phase = "awaitConfig"

\* one tick passes: no reaction is queued and no timer is due
Tick ==
  /\ ~MicrotaskPending
  /\ ~TimerDue
  /\ sinceInit' = IF ElapsedWillBeRead THEN Saturate(sinceInit) ELSE sinceInit
  /\ fetches' = [i \in DOMAIN fetches |->
       IF fetches[i].phase = "backoff"
       THEN [fetches[i] EXCEPT !.timer = @ - 1] ELSE fetches[i]]
  /\ merges' = [m \in DOMAIN merges |->
       IF merges[m].phase = "awaitFloors"
       THEN [merges[m] EXCEPT !.timer = IF @ > 0 THEN @ - 1 ELSE @,
                              !.waited = IF @ <= merges[m].budget THEN @ + 1 ELSE @]
       ELSE merges[m]]
  /\ UNCHANGED <<auctions, fetchFloorRulesPromise, fetchConfigPromise,
                 configMergedPromise, country, confFloors, auctionDelay,
                 setConfigCalls, initCalls, lastInit, call, ret>>

(***************************************************************************)
(* getBidRequestData                                                       *)
(***************************************************************************)
SUBMODULE_NAME == "pubmatic"

\* mergeDeep(target, source) on key maps: objects are merged key by key, any
\* other value of the source replaces the target's
RECURSIVE MergeDeep(_, _)
MergeDeep(target, source) ==
  [k \in DOMAIN target \cup DOMAIN source |->
     IF k \notin DOMAIN source THEN target[k]
     ELSE IF k \in DOMAIN target /\ target[k].t = "object" /\ source[k].t = "object"
          THEN Obj(MergeDeep(target[k].f, source[k].f))
          ELSE source[k]]

\* the request objects the host hands over
OtherBidder == Obj([other |-> Obj([user |-> Obj([ext |-> Obj([ctr |-> Str("ZZ")])])])])
ReqObjs ==
  {Undefined, Str("req"), EmptyObj,
   Obj([ortb2Fragments |-> Obj([bidder |-> OtherBidder])])}

\* !reqBidsConfigObj || typeof reqBidsConfigObj !== 'object'
InvalidReq(reqBidsConfigObj) ==
  ~Truthy(reqBidsConfigObj) \/ reqBidsConfigObj.t \notin {"object", "array", "null"}

\* ortb2Fragments.bidder after the two guards that create it
BidderFragments(reqBidsConfigObj) ==
  LET fragments == Get(reqBidsConfigObj, "ortb2Fragments")
  IN IF ~Truthy(fragments) \/ ~Truthy(Get(fragments, "bidder"))
     THEN EmptyObj
     ELSE Get(fragments, "bidder")

getBidRequestData(reqBidsConfigObj, callbackThrows) ==
  /\ Len(auctions) < MaxAuctions
  /\ IF InvalidReq(reqBidsConfigObj)
     THEN auctions' = Append(auctions,
            [phase |-> "done", calls |-> 1, throws |-> callbackThrows, sync |-> TRUE,
             continued |-> FALSE, continueThrew |-> FALSE, unmerged |-> FALSE,
             bidder |-> Undefined])
     ELSE auctions' = Append(auctions,
            [phase |-> "awaitGate", calls |-> 0, throws |-> callbackThrows,
             sync |-> FALSE, continued |-> FALSE, continueThrew |-> FALSE,
             unmerged |-> FALSE, bidder |-> BidderFragments(reqBidsConfigObj)])
  /\ UNCHANGED <<fetches, merges, sinceInit, fetchFloorRulesPromise,
                 fetchConfigPromise, configMergedPromise, country, confFloors,
                 auctionDelay, setConfigCalls, initCalls, lastInit, call, ret>>

GetBidRequestDataCall ==
  \E reqBidsConfigObj \in ReqObjs, callbackThrows \in BOOLEAN :
    getBidRequestData(reqBidsConfigObj, callbackThrows)

\* a merge handler that init started has not reached its finally block
MergeInFlight == \E m \in DOMAIN merges : merges[m].phase # "done"

\* continueAuction(hookConfig) returned, and if (_country)
WritesCountryMutant(continueThrows, _country) == Truthy(_country)
WritesCountry(continueThrows, _country) == ~continueThrows /\ Truthy(_country)

\* the .then handler on configMergedPromise: continueAuction, the country, and
\* callback() in finally; a callback that throws rejects the promise .then returned
GateThen(a) ==
  /\ auctions[a].phase = "awaitGate"
  /\ configMergedPromise = "resolved"
  /\ \E continueThrows \in BOOLEAN :
       auctions' = [auctions EXCEPT
         ![a].continued = TRUE,
         ![a].continueThrew = continueThrows,
         ![a].unmerged = MergeInFlight,
         ![a].bidder =
           IF WritesCountry(continueThrows, country)
           THEN Obj(MergeDeep(@.f,
                  [k \in {SUBMODULE_NAME} |->
                     Obj([user |-> Obj([ext |-> Obj([ctr |-> country])])])]))
           ELSE @,
         ![a].calls = @ + 1,
         ![a].phase = IF auctions[a].throws THEN "rejected" ELSE "done"]
  /\ UNCHANGED <<fetches, merges, sinceInit, fetchFloorRulesPromise,
                 fetchConfigPromise, configMergedPromise, country, confFloors,
                 auctionDelay, setConfigCalls, initCalls, lastInit, call, ret>>

\* the .catch handler chained after it: callback() once more
GateCatch(a) ==
  /\ auctions[a].phase = "rejected"
  /\ auctions' = [auctions EXCEPT ![a].calls = @ + 1, ![a].phase = "done"]
  /\ UNCHANGED <<fetches, merges, sinceInit, fetchFloorRulesPromise,
                 fetchConfigPromise, configMergedPromise, country, confFloors,
                 auctionDelay, setConfigCalls, initCalls, lastInit, call, ret>>

(***************************************************************************)
(* The provider in a page: the host calls init and getBidRequestData, the  *)
(* network and the timers answer.                                          *)
(***************************************************************************)
\* the floors configuration the page has set before the module is initialised
PageLevelFloors ==
  Obj([endpoint |-> Obj([url |-> Str("https://floors.example")]),
       enforcement |-> Str("page"),
       data |-> Obj([currency |-> Str("JPY")])])

Init ==
  /\ ModuleLoaded
  /\ confFloors = PageLevelFloors
  /\ auctionDelay \in AuctionDelays
  /\ call = NoCall
  /\ ret = NoCall

MergeHandler == \E m \in DOMAIN merges : ThenConfig(m) \/ AwaitFloorsValue(m)
TimeoutFires == \E m \in DOMAIN merges : AwaitFloorsTimeout(m)
Network == \E i \in DOMAIN fetches : FetchSettle(i, Outcomes)
NetworkAnswers == \E i \in DOMAIN fetches : FetchSettle(i, {"ok"})
RetryFires == \E i \in DOMAIN fetches : RetryTimer(i)
GateHandler == \E a \in DOMAIN auctions : GateThen(a) \/ GateCatch(a)

Next ==
  \/ InitCall
  \/ GetBidRequestDataCall
  \/ MergeHandler
  \/ TimeoutFires
  \/ Network
  \/ RetryFires
  \/ GateHandler
  \/ Tick

Spec == Init /\ [][Next]_vars

\* every queued reaction runs, every network attempt completes, time passes and
\* every timer fires; the host is free to call or not
Fairness ==
  /\ WF_vars(MergeHandler)
  /\ WF_vars(TimeoutFires)
  /\ WF_vars(Network)
  /\ WF_vars(RetryFires)
  /\ WF_vars(GateHandler)
  /\ WF_vars(Tick)

FairSpec == Init /\ [][Next]_vars /\ Fairness

(***************************************************************************)
(* The host initialises the module again in the same page load.  Every     *)
(* fetch is answered at its first attempt, at any time; the calls of init  *)
(* may overlap.                                                            *)
(***************************************************************************)
NextReinit ==
  \/ InitAgain
  \/ GetBidRequestDataCall
  \/ MergeHandler
  \/ TimeoutFires
  \/ NetworkAnswers
  \/ GateHandler
  \/ Tick

SpecReinit == Init /\ [][NextReinit]_vars

(***************************************************************************)
(* fetchData on its own, with every retries argument up to MaxRetries.     *)
(***************************************************************************)
InitFetch ==
  /\ \E type \in Types, retries \in 0..MaxRetries :
       fetches = <<fetchData(type, retries)>>
  /\ merges = <<>>
  /\ auctions = <<>>
  /\ sinceInit = 0
  /\ fetchFloorRulesPromise = 0
  /\ fetchConfigPromise = 0
  /\ configMergedPromise = "pending"
  /\ country \in {Undefined, Str("DE")}
  /\ confFloors = Undefined
  /\ auctionDelay = Undefined
  /\ setConfigCalls = 0
  /\ initCalls = 0
  /\ lastInit = NoInit
  /\ call = [op |-> "fetchData", type |-> fetches[1].type, retries |-> fetches[1].retries]
  /\ ret = [op |-> "fetchData", attempts |-> 1, outcome |-> "none", cc |-> <<>>]

NextFetch == Network \/ RetryFires \/ Tick

SpecFetch == InitFetch /\ [][NextFetch]_vars

(***************************************************************************)
(* withTimeout on its own.  The wrapped promise is the argument call.p; it *)
(* is pending, fulfilled or rejected when withTimeout is called and can    *)
(* settle at any time after.  ret is the frame of the call: the timer, the *)
(* promise of Promise.race and the promise handed back.                    *)
(***************************************************************************)
MaxMs == 3           \* the largest ceiling of a withTimeout called on its own, in ticks

Pending == [state |-> "pending", value |-> Undefined]
Fulfilled(v) == [state |-> "fulfilled", value |-> v]
Rejected(e) == [state |-> "rejected", value |-> e]

\* what the wrapped operation can resolve to, undefined included
PValues == {Undefined, FloorsA, Num(7)}
PStates == {Pending, Rejected(Str("error"))} \cup {Fulfilled(v) : v \in PValues}

\* a promise settles once: a later settlement leaves it as it is
RaceSettleMutant(race, outcome) == outcome
RaceSettle(race, outcome) == IF race.state = "pending" THEN outcome ELSE race

\* .catch((error) => { logError(..); return undefined; })
CatchError(race) == IF race.state = "rejected" THEN Fulfilled(Undefined) ELSE race

\* withTimeout(promise, ms) up to its return
withTimeout(promise, ms) ==
  IF WithTimeoutTimer(ms) = -1
  THEN [op |-> "withTimeout", same |-> TRUE, timer |-> -1, timers |-> 0,
        fired |-> FALSE, cleared |-> 0, reacted |-> TRUE, first |-> "none",
        race |-> Pending, result |-> promise]
  ELSE [op |-> "withTimeout", same |-> FALSE, timer |-> WithTimeoutTimer(ms),
        timers |-> 1, fired |-> FALSE, cleared |-> 0, reacted |-> FALSE,
        first |-> "none", race |-> Pending, result |-> Pending]

InitTimeout ==
  /\ ModuleLoaded
  /\ confFloors = Undefined
  /\ auctionDelay = Undefined
  /\ \E ms \in -1..MaxMs, promise \in PStates :
       call = [op |-> "withTimeout", ms |-> ms, p |-> promise]
  /\ ret = NoCall

ApplyWithTimeout ==
  /\ call.op = "withTimeout"
  /\ ret = NoCall
  /\ ret' = withTimeout(call.p, call.ms)
  /\ UNCHANGED <<moduleVars, call>>

\* the reaction of promise.finally is queued
FinallyPending ==
  /\ call.op = "withTimeout" /\ ret # NoCall
  /\ ~ret.reacted /\ call.p.state # "pending"

\* the wrapped operation settles; the promise handed back is the operation
\* itself when withTimeout returned it
PSettles ==
  /\ call.op = "withTimeout" /\ ret # NoCall
  /\ call.p.state = "pending"
  /\ \E outcome \in PStates \ {Pending} :
       /\ call' = [call EXCEPT !.p = outcome]
       /\ ret' = IF ret.same THEN [ret EXCEPT !.result = outcome] ELSE ret
  /\ UNCHANGED moduleVars

\* promise.finally(() => clearTimeout(timeoutId)), the race and the .catch
FinallyReaction ==
  /\ FinallyPending
  /\ LET race == RaceSettle(ret.race, call.p)
     IN ret' = [ret EXCEPT !.reacted = TRUE, !.cleared = @ + 1, !.timer = -1,
                           !.first = IF @ = "none" THEN "p" ELSE @,
                           !.race = race, !.result = CatchError(race)]
  /\ UNCHANGED <<moduleVars, call>>

\* setTimeout(() => resolve(undefined), ms) fires
TimerFires ==
  /\ call.op = "withTimeout" /\ ret # NoCall
  /\ ~FinallyPending
  /\ ret.timer = 0
  /\ LET race == RaceSettle(ret.race, Fulfilled(Undefined))
     IN ret' = [ret EXCEPT !.fired = TRUE, !.timer = -1,
                           !.first = IF @ = "none" THEN "timer" ELSE @,
                           !.race = race, !.result = CatchError(race)]
  /\ UNCHANGED <<moduleVars, call>>

\* one tick passes while the timer runs
TickTimeout ==
  /\ call.op = "withTimeout" /\ ret # NoCall
  /\ ~FinallyPending
  /\ ret.timer > 0
  /\ ret' = [ret EXCEPT !.timer = @ - 1]
  /\ UNCHANGED <<moduleVars, call>>

NextTimeout ==
  \/ ApplyWithTimeout
  \/ PSettles
  \/ FinallyReaction
  \/ TimerFires
  \/ TickTimeout

SpecTimeout == InitTimeout /\ [][NextTimeout]_vars

\* the call is made, queued reactions run, time passes and a due timer fires;
\* the wrapped operation is free to settle or never to settle
FairSpecTimeout ==
  /\ SpecTimeout
  /\ WF_vars(ApplyWithTimeout)
  /\ WF_vars(FinallyReaction)
  /\ WF_vars(TimerFires)
  /\ WF_vars(TickTimeout)

(***************************************************************************)
(* The Summarizer RTD provider (modules/summarizerRtdProvider.js), one     *)
(* call at a time.  A tick is 100 ms here.  A string whose characters      *)
(* matter (a topic) is the sequence of its characters.                     *)
(***************************************************************************)
\* DEFAULT_TIMEOUT: 200
SUMMARIZER_DEFAULT_TIMEOUT == 2

SummaryA ==
  Obj([summary |-> Str("text"),
       topics |-> Arr(<<Str(<<" ", "A", "i", " ">>), Str(<<"W", "e", "b">>)>>)])

\* what navigator.summarizer.summarize() returns: pending, or settled already
SummarizeStates ==
  {Pending, Rejected(Str("error")), Fulfilled(Null), Fulfilled(Undefined),
   Fulfilled(SummaryA),
   Fulfilled(Obj([summary |-> Str("text")])),
   Fulfilled(Obj([topics |-> Arr(<<>>)])),
   Fulfilled(Obj([summary |-> Str("text"), topics |-> Arr(<<Num(5)>>)]))}

\* topic.trim().toLowerCase(), over the letters the topics of the model use
TrimLowerMutant(topic) == topic
TrimLower(topic) ==
  LET inked == {i \in DOMAIN topic : topic[i] # " "}
      first == CHOOSE i \in inked : \A j \in inked : i <= j
      last == CHOOSE i \in inked : \A j \in inked : j <= i
      trimmed == IF inked = {} THEN <<>> ELSE SubSeq(topic, first, last)
  IN [i \in DOMAIN trimmed |->
        CASE trimmed[i] = "A" -> "a"
          [] trimmed[i] = "W" -> "w"
          [] OTHER -> trimmed[i]]

\* a topic that is no string has no trim method: the map throws
extractCategories(summary) ==
  LET topics == Get(summary, "topics")
  IN IF ~Truthy(summary) \/ ~Truthy(topics) \/ topics.t # "array"
     THEN Return(Arr(<<>>))
     ELSE IF \E i \in DOMAIN topics.q : topics.q[i].t # "string"
          THEN Throw
          ELSE Return(Arr([i \in DOMAIN topics.q |-> Str(TrimLower(topics.q[i].s))]))

\* if (!summary) return null; return summary; and null from the catch block
SummaryResultMutant(race) == IF race.state = "rejected" THEN Null ELSE race.value
SummaryResult(race) ==
  IF race.state = "rejected" \/ ~Truthy(race.value) THEN Null ELSE race.value

\* fetchContentSummary(timeout) up to its await: the promise it returns (fcs),
\* the race it waits for, the timer, and the calls of summarize() it made
fetchContentSummary(api, summarize, timeout) ==
  IF api = "unavailable"
  THEN [fcs |-> Fulfilled(Null), race |-> Pending, timer |-> -1, ceiling |-> 0,
        summarizeCalls |-> 0]
  ELSE IF api = "throws"
  THEN [fcs |-> Fulfilled(Null), race |-> Pending, timer |-> -1, ceiling |-> 0,
        summarizeCalls |-> 1]
  ELSE LET ms == IF timeout = Undefined THEN SUMMARIZER_DEFAULT_TIMEOUT ELSE timeout.n
           delay == IF ms > 0 THEN ms ELSE 0
       IN [fcs |-> Pending, race |-> summarize, timer |-> delay, ceiling |-> delay,
           summarizeCalls |-> 1]

\* the ortb2 object getBidRequestData builds from a summary
Ortb2(summary, categories) ==
  [site |-> Obj([content |-> Obj([data |-> Arr(<<Obj([name |-> Str("summary"),
                   segment |-> Arr(<<Obj([value |->
                     IF Truthy(Get(summary, "summary"))
                     THEN Get(summary, "summary") ELSE Str("")])>>)])>>)]),
                 cat |-> categories]),
   user |-> Obj([data |-> Arr(<<Obj([name |-> Str("interests"),
                   segment |-> Arr([i \in DOMAIN categories.q |->
                                      Obj([value |-> categories.q[i]])])])>>)])]

\* the try block of getBidRequestData after the await: ortb2Fragments.global
\* as it leaves it; a thrown error is caught and changes nothing
EnrichGlobalMutant(reqBidsConfigObj, summary) ==
  LET fragments == Get(reqBidsConfigObj, "ortb2Fragments")
      global == Get(fragments, "global")
      categories == extractCategories(summary)
  IN IF categories.threw \/ fragments.t # "object" \/ global.t # "object"
     THEN global
     ELSE Obj(MergeDeep(global.f, Ortb2(summary, categories.value)))
EnrichGlobal(reqBidsConfigObj, summary) ==
  LET fragments == Get(reqBidsConfigObj, "ortb2Fragments")
      global == Get(fragments, "global")
      categories == extractCategories(summary)
  IN IF ~Truthy(summary) \/ categories.threw \/ fragments.t # "object"
        \/ global.t # "object"
     THEN global
     ELSE Obj(MergeDeep(global.f, Ortb2(summary, categories.value)))

\* callback(), after the try/catch of getBidRequestData
CallbackCallsMutant(summary) == IF Truthy(summary) THEN 1 ELSE 0
CallbackCalls(summary) == 1

\* getTargetingData after the await
TargetingData(adUnitCodes, summary) ==
  LET categories == extractCategories(summary)
  IN IF ~Truthy(summary) \/ categories.threw
     THEN EmptyObj
     ELSE LET primaryCategory ==
                IF Len(categories.value.q) > 0 THEN categories.value.q[1] ELSE Str(<<>>)
          IN Obj([code \in {adUnitCodes[i] : i \in DOMAIN adUnitCodes} |->
                    Obj([content_category |-> primaryCategory])])

\* the calls of the model and their arguments
SummarizerCalls ==
  LET base == [op |-> "fetchContentSummary", api |-> "promise", summarize |-> Pending,
               timeout |-> Undefined, targeting |-> Undefined,
               reqBidsConfigObj |-> Undefined, adUnitCodes |-> <<>>]
      envs == {[base EXCEPT !.api = "unavailable"], [base EXCEPT !.api = "throws"]}
                \cup {[base EXCEPT !.summarize = st] : st \in SummarizeStates}
  IN {[e EXCEPT !.timeout = t] : e \in envs, t \in {Undefined, Num(0), Num(3)}}
     \cup {[e EXCEPT !.op = "getBidRequestData", !.timeout = t, !.reqBidsConfigObj = r] :
             e \in envs, t \in {Undefined, Num(1)},
             r \in {EmptyObj,
                    Obj([ortb2Fragments |-> Obj([global |-> EmptyObj])]),
                    Obj([ortb2Fragments |-> Obj([global |->
                      Obj([site |-> Obj([page |-> Str("p")])])])])}}
     \cup {[e EXCEPT !.op = "getTargetingData", !.targeting = g, !.adUnitCodes = a] :
             e \in envs, g \in {Undefined, Bool(FALSE), Bool(TRUE)},
             a \in {<<>>, <<"ad1", "ad2">>, <<"ad1", "ad1">>}}

InitSummarizer ==
  /\ ModuleLoaded
  /\ confFloors = Undefined
  /\ auctionDelay = Undefined
  /\ call \in SummarizerCalls
  /\ ret = NoCall

\* the call up to its first await; moduleConfig.timeout || DEFAULT_TIMEOUT for
\* the two calls that read the timeout from the configuration
ApplySummarizer ==
  /\ call.op \in {"fetchContentSummary", "getBidRequestData", "getTargetingData"}
  /\ ret = NoCall
  /\ LET timeout == IF call.op = "fetchContentSummary" \/ Truthy(call.timeout)
                    THEN call.timeout ELSE Num(SUMMARIZER_DEFAULT_TIMEOUT)
         frame == [op |-> call.op, phase |-> "await", elapsed |-> 0, calls |-> 0,
                   out |-> Undefined, global |-> Undefined]
     IN ret' = IF call.op = "getTargetingData" /\ call.targeting = Bool(FALSE)
               THEN [frame EXCEPT !.phase = "done", !.out = EmptyObj] @@
                    [fcs |-> Pending, race |-> Pending, timer |-> -1, ceiling |-> 0,
                     summarizeCalls |-> 0]
               ELSE frame @@ fetchContentSummary(call.api, call.summarize, timeout)
  /\ UNCHANGED <<moduleVars, call>>

SummaryAwaited == call.op \in {"fetchContentSummary", "getBidRequestData",
                               "getTargetingData"}
                  /\ ret # NoCall /\ ret.phase = "await"

\* the await of fetchContentSummary can resume
SummaryReady == SummaryAwaited /\ (ret.fcs # Pending \/ ret.race # Pending)

\* summarize() settles after the call
SummarizeSettles ==
  /\ SummaryAwaited /\ ~SummaryReady
  /\ \E outcome \in SummarizeStates \ {Pending} :
       /\ call' = [call EXCEPT !.summarize = outcome]
       /\ ret' = [ret EXCEPT !.race = RaceSettle(@, outcome)]
  /\ UNCHANGED moduleVars

\* setTimeout(() => reject(new Error('Summary request timed out')), timeout)
SummaryTimerFires ==
  /\ SummaryAwaited /\ ~SummaryReady
  /\ ret.timer = 0
  /\ ret' = [ret EXCEPT !.timer = -1,
                        !.race = RaceSettle(@, Rejected(Str("Summary request timed out")))]
  /\ UNCHANGED <<moduleVars, call>>

\* fetchContentSummary resumes and settles, then its caller resumes
AfterSummary ==
  /\ SummaryReady
  /\ LET summary == IF ret.fcs # Pending THEN ret.fcs.value ELSE SummaryResult(ret.race)
     IN ret' = [ret EXCEPT
          !.phase = "done",
          !.fcs = Fulfilled(summary),
          !.out = CASE call.op = "fetchContentSummary" -> summary
                    [] call.op = "getTargetingData" ->
                         TargetingData(call.adUnitCodes, summary)
                    [] OTHER -> Undefined,
          !.global = IF call.op = "getBidRequestData"
                     THEN EnrichGlobal(call.reqBidsConfigObj, summary) ELSE @,
          !.calls = IF call.op = "getBidRequestData" THEN CallbackCalls(summary) ELSE @]
  /\ UNCHANGED <<moduleVars, call>>

\* 100 ms pass while the race is undecided and the timer is not due
TickSummary ==
  /\ SummaryAwaited /\ ~SummaryReady
  /\ ret.timer # 0
  /\ ret.elapsed < MaxClock
  /\ ret' = [ret EXCEPT !.elapsed = @ + 1, !.timer = IF @ > 0 THEN @ - 1 ELSE @]
  /\ UNCHANGED <<moduleVars, call>>

NextSummarizer ==
  \/ ApplySummarizer
  \/ SummarizeSettles
  \/ SummaryTimerFires
  \/ AfterSummary
  \/ TickSummary

SpecSummarizer == InitSummarizer /\ [][NextSummarizer]_vars

(***************************************************************************)
(* getCurrentTimeOfDay in a page whose clock runs: call.hour is what       *)
(* new Date().getHours() returns at the moment, ret is the latest call.    *)
(***************************************************************************)
MaxCalls == 2        \* calls of getCurrentTimeOfDay in one page load

getCurrentTimeOfDayMutant(currentHour) ==
  IF currentHour < 5 THEN "night"
  ELSE IF currentHour < 12 THEN "morning"
  ELSE IF currentHour < 17 THEN "afternoon"
  ELSE IF currentHour < 18 THEN "evening"
  ELSE "night"
getCurrentTimeOfDay(currentHour) ==
  IF currentHour < 5 THEN "night"
  ELSE IF currentHour < 12 THEN "morning"
  ELSE IF currentHour < 17 THEN "afternoon"
  ELSE IF currentHour < 19 THEN "evening"
  ELSE "night"

InitTimeOfDay ==
  /\ ModuleLoaded
  /\ confFloors = Undefined
  /\ auctionDelay = Undefined
  /\ \E hour \in 0..23 : call = [op |-> "getCurrentTimeOfDay", hour |-> hour]
  /\ ret = NoCall

CallTimeOfDay ==
  /\ call.op = "getCurrentTimeOfDay"
  /\ IF ret = NoCall THEN TRUE ELSE ret.calls < MaxCalls
  /\ ret' = [op |-> "getCurrentTimeOfDay", at |-> call.hour,
             value |-> getCurrentTimeOfDay(call.hour),
             calls |-> IF ret = NoCall THEN 1 ELSE ret.calls + 1]
  /\ UNCHANGED <<moduleVars, call>>

\* the local clock reaches the next hour
HourPasses ==
  /\ call.op = "getCurrentTimeOfDay"
  /\ call' = [call EXCEPT !.hour = (@ + 1) % 24]
  /\ UNCHANGED <<moduleVars, ret>>

NextTimeOfDay == CallTimeOfDay \/ HourPasses

SpecTimeOfDay == InitTimeOfDay /\ [][NextTimeOfDay]_vars

(***************************************************************************)
(* chunk (libraries/chunk/chunk.js), one iteration of its loop at a time.  *)
(***************************************************************************)
MaxLen == 4          \* the longest array handed to chunk
MaxSize == 5         \* the largest size handed to chunk
MaxLoop == 6         \* iterations of the loop the model follows

\* array.slice(start, end): a negative index counts from the end
Slice(array, start, end) ==
  LET n == Len(array)
      clamp(k) == IF k < 0 THEN (IF n + k > 0 THEN n + k ELSE 0)
                  ELSE (IF k < n THEN k ELSE n)
  IN SubSeq(array, clamp(start) + 1, clamp(end))

\* i < Math.ceil(array.length / size); length / 0 is Infinity, 0 / 0 is NaN
\* (no number is below NaN), and the ceiling of a negative quotient rounds up
LoopContinuesMutant(i, length, size) ==
  IF size > 0 THEN i < length \div size
  ELSE IF size = 0 THEN length > 0
  ELSE i < -(length \div (-size))
LoopContinues(i, length, size) ==
  IF size > 0 THEN i < (length + size - 1) \div size
  ELSE IF size = 0 THEN length > 0
  ELSE i < -(length \div (-size))

ChunkArrays ==
  UNION {[1..n -> {"a", "b"}] : n \in 0..MaxLen}

InitChunk ==
  /\ ModuleLoaded
  /\ confFloors = Undefined
  /\ auctionDelay = Undefined
  /\ \E array \in ChunkArrays, size \in -1..MaxSize :
       call = [op |-> "chunk", array |-> array, size |-> size]
  /\ ret = NoCall

\* const newArray = []; and the loop variable
ChunkCall ==
  /\ call.op = "chunk"
  /\ ret = NoCall
  /\ ret' = [op |-> "chunk", phase |-> "loop", i |-> 0, newArray |-> <<>>,
             array |-> call.array]
  /\ UNCHANGED <<moduleVars, call>>

\* one test of the loop condition: an iteration, or the return
ChunkLoop ==
  /\ call.op = "chunk"
  /\ IF ret = NoCall THEN FALSE ELSE ret.phase = "loop" /\ ret.i < MaxLoop
  /\ ret' = IF LoopContinues(ret.i, Len(ret.array), call.size)
            THEN LET start == ret.i * call.size
                     end == start + call.size
                 IN [ret EXCEPT !.newArray = Append(@, Slice(ret.array, start, end)),
                                !.i = @ + 1]
            ELSE [ret EXCEPT !.phase = "returned"]
  /\ UNCHANGED <<moduleVars, call>>

NextChunk == ChunkCall \/ ChunkLoop

SpecChunk == InitChunk /\ [][NextChunk]_vars

(***************************************************************************)
(* Claims about the provider in a page.                                    *)
(***************************************************************************)
\* C1: the callback of every getBidRequestData call is invoked exactly once:
\* never twice, and once by the time the call has run to its end, also when
\* continueAuction or the callback itself throws.
C1_CallbackExactlyOnce ==
  \A a \in DOMAIN auctions :
    /\ auctions[a].calls <= 1
    /\ auctions[a].phase = "done" => auctions[a].calls = 1

\* C2: once init has been called, whatever its outcome, the gate is eventually
\* resolved and the callback of every getBidRequestData call is eventually invoked.
C2_NeverBlocked ==
  /\ (initCalls > 0) ~> (configMergedPromise = "resolved")
  /\ \A a \in 1..MaxAuctions :
       (initCalls > 0 /\ a \in DOMAIN auctions)
         ~> (a \in DOMAIN auctions /\ auctions[a].calls > 0)

\* after an init that returned true the gate does open (holds under FairSpec)
GateOpensAfterAcceptedInit ==
  (lastInit # NoInit /\ lastInit.returned) ~> (configMergedPromise = "resolved")

\* C3: continueAuction is never called while a merge that init started has
\* neither installed its configuration nor failed, a second init included.
C3_EnrichAfterMerge ==
  \A a \in DOMAIN auctions : auctions[a].continued => ~auctions[a].unmerged

\* C4: the handler of an init that returned true calls configMerged exactly
\* once: never twice, and once by the time it has finished, on the successful
\* path and on each error path; the gate is resolved from then on.
C4_GateResolvedOncePerInit ==
  /\ (lastInit # NoInit /\ lastInit.returned) => merges # <<>>
  /\ \A m \in DOMAIN merges :
       /\ merges[m].merged <= 1
       /\ merges[m].phase = "done" <=> merges[m].merged = 1
       /\ merges[m].phase = "done" => configMergedPromise = "resolved"

\* getFloorsConfig threw and the handler still resolved the gate, once
C4_Witness ==
  \E m \in DOMAIN merges :
    /\ merges[m].path = "getFloorsConfigThrew"
    /\ merges[m].merged = 1
    /\ configMergedPromise = "resolved"

\* C5: conf.setConfig installs a floors block at most once per page load,
\* and exactly once when a merge has succeeded, however often init is called.
C5_SetConfigOnce ==
  /\ setConfigCalls <= 1
  /\ (\E m \in DOMAIN merges : merges[m].path = "installed") => setConfigCalls = 1

\* C6: once the config fetch has completed, the handler waits for the floor
\* data no longer than the remaining budget max(0.8 * auctionDelay - elapsed, 0).
C6_WaitBounded ==
  \A m \in DOMAIN merges :
    merges[m].phase = "awaitFloors" => merges[m].waited <= merges[m].budget

\* a budget above 0 does bound the wait (holds under Spec)
PositiveBudgetBoundsWait ==
  \A m \in DOMAIN merges :
    (merges[m].phase = "awaitFloors" /\ merges[m].budget > 0)
      => merges[m].waited <= merges[m].budget

\* an id is missing (init's own word for a falsy id) or is not a string, or
\* continueAuction is not a function
C7_Rejects(c) ==
  \/ ~Truthy(c.publisherId) \/ c.publisherId.t # "string"
  \/ ~Truthy(c.profileId) \/ c.profileId.t # "string"
  \/ c.continueFn.t # "function"

C7_InitStep ==
  initCalls' = initCalls + 1 =>
    IF C7_Rejects(lastInit')
    THEN /\ ~lastInit'.returned
         /\ UNCHANGED <<fetches, merges, fetchFloorRulesPromise, fetchConfigPromise,
                        configMergedPromise, confFloors, setConfigCalls, country>>
    ELSE /\ lastInit'.returned
         /\ Len(fetches') = Len(fetches) + 2
         /\ SubSeq(fetches', 1, Len(fetches)) = fetches
         /\ fetches'[Len(fetches) + 1] = fetchData("FLOORS", DEFAULT_RETRIES)
         /\ fetches'[Len(fetches) + 2] = fetchData("CONFIGS", DEFAULT_RETRIES)

\* C7: init returns false, starts no fetch, writes no configuration and leaves
\* the gate alone when publisherId or profileId is missing or no string or
\* continueAuction is no function; otherwise it returns true and starts one
\* FLOORS chain and one CONFIGS chain.
C7_InitGuards == [][C7_InitStep]_vars

\* a numeric publisherId: init returned false and nothing was fetched
C7_Witness ==
  /\ lastInit # NoInit
  /\ lastInit.publisherId = Num(123)
  /\ ~lastInit.returned
  /\ fetches = <<>>
  /\ configMergedPromise = "pending"

(***************************************************************************)
(* Claims about getFloorsConfig (specification SpecMerge).                 *)
(***************************************************************************)
DynamicFloorsOf(profileConfigs) == Get(Get(profileConfigs, "plugins"), "dynamicFloors")

\* the profile configurations C9 names: not a plain object, empty, without
\* plugins.dynamicFloors, with a falsy enabled flag, or without a config
NothingToMerge(profileConfigs) ==
  \/ profileConfigs.t # "object"
  \/ DOMAIN profileConfigs.f = {}
  \/ DynamicFloorsOf(profileConfigs) = Undefined
  \/ ~Truthy(Get(DynamicFloorsOf(profileConfigs), "enabled"))
  \/ Get(DynamicFloorsOf(profileConfigs), "config") \in {Undefined, Null}

\* C9: getFloorsConfig returns undefined (and does not throw), whatever the
\* floor data, when the profile configuration is not a plain object, is empty,
\* has no plugins.dynamicFloors, has enabled falsy or has no config.
C9_FailsClosed ==
  (ret # NoCall /\ ret.op = "getFloorsConfig" /\ NothingToMerge(call.profileConfigs))
    => (~ret.threw /\ ret.value = Undefined)

\* a disabled plugin that carries a config, applied to fetched floor data
C9_Witness ==
  /\ ret # NoCall /\ ret.op = "getFloorsConfig"
  /\ call.floorsData = FloorsA
  /\ Get(DynamicFloorsOf(call.profileConfigs), "enabled") = Bool(FALSE)
  /\ Get(DynamicFloorsOf(call.profileConfigs), "config") # Undefined
  /\ ret.value = Undefined

MergedData(r) == Get(Get(r.value, "floors"), "data")
PluginConfigOf(profileConfigs) == Get(DynamicFloorsOf(profileConfigs), "config")

\* C10: in every merged output, data.skipRate is the plugin configuration's
\* skipRate when that key is set (0 included), and otherwise the fetched
\* skipRate, or the default 0 when no floor data was fetched.
C10_SkipRateOverride ==
  (ret # NoCall /\ ret.op = "getFloorsConfig" /\ ~ret.threw /\ ret.value # Undefined)
    => LET plugin == PluginConfigOf(call.profileConfigs)
       IN IF "skipRate" \in DOMAIN plugin.f
          THEN Get(MergedData(ret), "skipRate") = plugin.f["skipRate"]
          ELSE IF call.floorsData \in {Undefined, Null}
               THEN Get(MergedData(ret), "skipRate") = Num(0)
               ELSE Get(MergedData(ret), "skipRate") = Get(call.floorsData, "skipRate")

\* fetched skipRate 50, plugin skipRate 0: the output carries 0
C10_Witness ==
  /\ ret # NoCall /\ ret.op = "getFloorsConfig" /\ ~ret.threw
  /\ call.floorsData = FloorsA
  /\ Get(PluginConfigOf(call.profileConfigs), "skipRate") = Num(0)
  /\ Get(MergedData(ret), "skipRate") = Num(0)
  /\ Get(call.floorsData, "skipRate") = Num(50)

(***************************************************************************)
(* Claims about fetchData (specification SpecFetch).                       *)
(***************************************************************************)
\* C8: fetchData(.., retries = r) calls fetch() at most r + 1 times, resolves
\* to the body of a successful attempt, and resolves to undefined only when
\* all r + 1 attempts have failed; it never rejects.
C8_FetchRetries ==
  (call.op = "fetchData") =>
    \A i \in DOMAIN fetches :
      /\ ret.attempts <= call.retries + 1
      /\ fetches[i].phase \in {"fetching", "backoff", "resolved"}
      /\ (fetches[i].phase = "resolved" /\ fetches[i].value = Undefined)
           => ret.attempts = call.retries + 1
      /\ (fetches[i].phase = "resolved" /\ fetches[i].value # Undefined)
           => fetches[i].value \in Bodies(fetches[i].type)

\* two failures, then the third attempt of a default fetchData succeeds
C8_Witness ==
  /\ call.op = "fetchData"
  /\ call.retries = DEFAULT_RETRIES
  /\ ret.attempts = 3
  /\ fetches[1].phase = "resolved"
  /\ fetches[1].value = FloorsA

(***************************************************************************)
(* Claims about withTimeout (specification SpecTimeout).                   *)
(***************************************************************************)
WithTimeoutCalled == call.op = "withTimeout" /\ ret # NoCall

C11_Delivered ==
  (WithTimeoutCalled /\ call.ms > 0) =>
    /\ ret.first = "none" => ret.result = Pending
    /\ ret.first = "timer" => ret.result = Fulfilled(Undefined)
    /\ (ret.first = "p" /\ call.p.state = "fulfilled") => ret.result = call.p

C11_Stable ==
  (WithTimeoutCalled /\ call.ms > 0 /\ ret.result # Pending)
    => ret'.result = ret.result

\* C11: for ms > 0 the promise withTimeout returns is fulfilled with p's value
\* when p is fulfilled before the timer fires and with undefined when the
\* timer fires first, and once it has settled no later step changes it.
C11_FirstWins == [](C11_Delivered) /\ [][C11_Stable]_vars

\* the timer fired first and p was fulfilled with the floor data afterwards
C11_Witness ==
  /\ WithTimeoutCalled /\ call.ms > 0
  /\ ret.first = "timer" /\ ret.fired
  /\ call.p = Fulfilled(FloorsA)
  /\ ret.reacted
  /\ ret.result = Fulfilled(Undefined)

\* C12: for ms <= 0 withTimeout returns p itself: the promise handed back is
\* in p's state with p's value at every moment, no timer is ever started and
\* no timer fires.
C12_ReturnsOperation ==
  (WithTimeoutCalled /\ call.ms <= 0) =>
    /\ ret.same
    /\ ret.result = call.p
    /\ ret.timers = 0 /\ ret.timer = -1 /\ ~ret.fired

\* ms = 0 and the operation was fulfilled with the floor data after the call
C12_Witness ==
  /\ WithTimeoutCalled /\ call.ms = 0
  /\ call.p = Fulfilled(FloorsA)
  /\ ret.result = Fulfilled(FloorsA)

\* C13: for every ms the promise withTimeout returns is never rejected: a
\* rejection of p is turned into undefined.
C13_RejectionCaught ==
  WithTimeoutCalled =>
    /\ ret.result.state # "rejected"
    /\ (call.p.state = "rejected" /\ ret.reacted) => ret.result = Fulfilled(Undefined)

\* for ms > 0 a rejection of p is turned into undefined (holds under SpecTimeout)
PositiveCeilingCatchesRejection ==
  (WithTimeoutCalled /\ call.ms > 0) =>
    /\ ret.result.state # "rejected"
    /\ (call.p.state = "rejected" /\ ret.reacted) => ret.result = Fulfilled(Undefined)

(***************************************************************************)
(* Claims about the Summarizer provider (specification SpecSummarizer).    *)
(***************************************************************************)
SummarizerCalled(op) == call.op = op /\ ret # NoCall

\* C14: the callback of the Summarizer getBidRequestData is invoked exactly
\* once: never twice, once by the time the call has finished, and not before
\* fetchContentSummary has settled, whether a summary was obtained, the API is
\* unavailable, summarize() rejected or the timeout came first.
C14_CallbackOnce ==
  SummarizerCalled("getBidRequestData") =>
    /\ ret.calls <= 1
    /\ ret.phase = "done" <=> ret.calls = 1
    /\ ret.calls = 1 => ret.fcs # Pending

\* summarize() was still pending when the timeout fired: the callback ran once
C14_Witness ==
  /\ SummarizerCalled("getBidRequestData")
  /\ call.summarize = Pending
  /\ ret.race = Rejected(Str("Summary request timed out"))
  /\ ret.phase = "done" /\ ret.calls = 1

\* the ceiling fetchContentSummary was called with, in ticks
C15_Ceiling ==
  LET ms == IF call.timeout = Undefined THEN SUMMARIZER_DEFAULT_TIMEOUT ELSE call.timeout.n
  IN IF ms > 0 THEN ms ELSE 0

\* C15: fetchContentSummary(timeout) resolves to what summarize() resolved
\* with only when that is truthy and came before the timeout; when the API is
\* unavailable, summarize() throws or rejects, the summary is falsy or the
\* timeout fires first it resolves to null; it never rejects and is settled
\* no later than timeout after the call.
C15_SummaryOrNull ==
  SummarizerCalled("fetchContentSummary") =>
    /\ ret.fcs.state # "rejected"
    /\ ret.elapsed <= C15_Ceiling
    /\ ret.phase = "done" =>
         /\ ret.fcs = Fulfilled(ret.out)
         /\ ret.out # Null =>
              /\ call.api = "promise"
              /\ call.summarize.state = "fulfilled"
              /\ Truthy(call.summarize.value)
              /\ ret.out = call.summarize.value
              /\ ret.timer >= 0
         /\ (\/ call.api # "promise"
             \/ call.summarize.state = "rejected"
             \/ call.summarize.state = "fulfilled" /\ ~Truthy(call.summarize.value)
             \/ ret.timer = -1)
              => ret.out = Null

\* the timeout of 300 ms fired with summarize() pending: null after 3 ticks
C15_Witness ==
  /\ SummarizerCalled("fetchContentSummary")
  /\ call.timeout = Num(3) /\ call.summarize = Pending
  /\ ret.phase = "done" /\ ret.elapsed = 3
  /\ ret.out = Null

\* r is t without the blanks at its ends and with its capitals in lower case
C16_Normalised(r, t) ==
  /\ \A i \in DOMAIN r : r[i] \notin {"A", "W"}
  /\ r # <<>> => r[1] # " " /\ r[Len(r)] # " "
  /\ \E a \in 1..(Len(t) + 1) :
       /\ Len(r) <= Len(t) - a + 1
       /\ \A i \in 1..Len(t) : (i < a \/ i >= a + Len(r)) => t[i] = " "
       /\ \A i \in 1..Len(r) :
            r[i] = (IF t[a + i - 1] = "A" THEN "a"
                    ELSE IF t[a + i - 1] = "W" THEN "w" ELSE t[a + i - 1])

C16_Codes == {call.adUnitCodes[i] : i \in DOMAIN call.adUnitCodes}

\* C16 as stated: an empty mapping when targeting is false (summarize() not
\* called) and when no summary is obtained; otherwise one entry per ad unit
\* code holding the first topic of the summary, trimmed and lower-cased.
C16_AsStated ==
  (SummarizerCalled("getTargetingData") /\ ret.phase = "done") =>
    IF call.targeting = Bool(FALSE)
    THEN ret.out = EmptyObj /\ ret.summarizeCalls = 0
    ELSE IF ret.fcs.value = Null
    THEN ret.out = EmptyObj
    ELSE LET topics == Get(ret.fcs.value, "topics")
         IN /\ DOMAIN ret.out.f = C16_Codes
            /\ topics.t = "array" /\ topics.q # <<>> /\ topics.q[1].t = "string"
            /\ \A code \in C16_Codes :
                 /\ DOMAIN ret.out.f[code].f = {"content_category"}
                 /\ C16_Normalised(ret.out.f[code].f["content_category"].s, topics.q[1].s)

\* C16, amended: as stated, and with a summary that has no topics array or an
\* empty one the category of every entry is the empty string, and with a
\* summary that has a topic which is no string the mapping is empty.
C16_Targeting ==
  (SummarizerCalled("getTargetingData") /\ ret.phase = "done") =>
    IF call.targeting = Bool(FALSE)
    THEN ret.out = EmptyObj /\ ret.summarizeCalls = 0
    ELSE IF ret.fcs.value = Null
    THEN ret.out = EmptyObj
    ELSE LET topics == Get(ret.fcs.value, "topics")
         IN IF topics.t = "array" /\ \E i \in DOMAIN topics.q : topics.q[i].t # "string"
            THEN ret.out = EmptyObj
            ELSE /\ DOMAIN ret.out.f = C16_Codes
                 /\ \A code \in C16_Codes :
                      /\ DOMAIN ret.out.f[code].f = {"content_category"}
                      /\ LET category == ret.out.f[code].f["content_category"]
                         IN IF topics.t = "array" /\ topics.q # <<>>
                            THEN C16_Normalised(category.s, topics.q[1].s)
                            ELSE category = Str(<<>>)

\* a summary whose first topic is " Ai ": both ad units carry "ai"
C16_Witness ==
  /\ SummarizerCalled("getTargetingData") /\ ret.phase = "done"
  /\ call.targeting # Bool(FALSE)
  /\ call.adUnitCodes = <<"ad1", "ad2">>
  /\ ret.fcs = Fulfilled(SummaryA)
  /\ ret.out = Obj([code \in {"ad1", "ad2"} |->
                      Obj([content_category |-> Str(<<"a", "i">>)])])

(***************************************************************************)
(* Claims about getCurrentTimeOfDay (specification SpecTimeOfDay).         *)
(***************************************************************************)
\* C17: for the local hour h of the call, getCurrentTimeOfDay returns night
\* when h < 5 or h >= 19, morning when 5 <= h <= 11, afternoon when
\* 12 <= h <= 16 and evening when 17 <= h <= 18: one bucket for every hour.
C17_TimeOfDayBuckets ==
  (call.op = "getCurrentTimeOfDay" /\ ret # NoCall) =>
    /\ ret.at \in 0..23
    /\ ret.value \in {"night", "morning", "afternoon", "evening"}
    /\ ret.value = "night" <=> (ret.at < 5 \/ ret.at >= 19)
    /\ ret.value = "morning" <=> (5 <= ret.at /\ ret.at <= 11)
    /\ ret.value = "afternoon" <=> (12 <= ret.at /\ ret.at <= 16)
    /\ ret.value = "evening" <=> (17 <= ret.at /\ ret.at <= 18)

\* a call at 18 h, the last hour of the evening
C17_Witness ==
  /\ call.op = "getCurrentTimeOfDay" /\ ret # NoCall
  /\ ret.at = 18 /\ ret.value = "evening"

(***************************************************************************)
(* Claims about the merge step (specification Spec).                       *)
(***************************************************************************)
\* a handler finishes on the path where getFloorsConfig returned undefined
C18_NothingMerged(m) ==
  /\ m \in DOMAIN merges /\ merges[m].phase # "done"
  /\ merges'[m].phase = "done" /\ merges'[m].path = "nothingToMerge"

\* C18: when the merge step finds nothing to merge (profile configuration
\* missing, empty or malformed, plugin disabled or without config),
\* conf.setConfig is not called, the floors configuration of the store is left
\* as it was, endpoint included, and the gate is resolved.
C18_NothingToMergeFrame ==
  [][\A m \in 1..MaxReinits :
       C18_NothingMerged(m) =>
         /\ setConfigCalls' = setConfigCalls
         /\ confFloors' = confFloors
         /\ configMergedPromise' = "resolved"]_vars

\* on that path conf.setConfig is not called and the gate is resolved (holds
\* under Spec)
NothingToMergeResolvesGate ==
  [][\A m \in 1..MaxReinits :
       C18_NothingMerged(m) =>
         /\ setConfigCalls' = setConfigCalls
         /\ configMergedPromise' = "resolved"]_vars

(***************************************************************************)
(* Claims about chunk (specification SpecChunk).                           *)
(***************************************************************************)
\* C19: for size >= 1, chunk returns ceil(length / size) chunks, every one of
\* size elements but the last, which has from 1 to size elements; the chunks
\* in order hold the elements of the array in order, and the array handed in
\* is as it was.
C19_ChunkShape ==
  (call.op = "chunk" /\ ret # NoCall /\ call.size >= 1) =>
    /\ ret.array = call.array
    /\ ret.phase = "returned" =>
         LET n == Len(call.array)
             count == Len(ret.newArray)
         IN /\ count * call.size >= n
            /\ (count - 1) * call.size < n \/ (count = 0 /\ n = 0)
            /\ \A j \in 1..count :
                 Len(ret.newArray[j]) =
                   IF j < count THEN call.size ELSE n - (count - 1) * call.size
            /\ count > 0 =>
                 /\ Len(ret.newArray[count]) >= 1
                 /\ Len(ret.newArray[count]) <= call.size
            /\ \A k \in 1..n :
                 call.array[k] =
                   ret.newArray[((k - 1) \div call.size) + 1][((k - 1) % call.size) + 1]

\* three elements by two: a full chunk and a last chunk of one
C19_Witness ==
  /\ call.op = "chunk" /\ ret # NoCall /\ ret.phase = "returned"
  /\ call.array = <<"a", "b", "a">> /\ call.size = 2
  /\ ret.newArray = <<(<<"a", "b">>), (<<"a">>)>>

(***************************************************************************)
(* Claims about the gate (specification SpecReinit).                       *)
(***************************************************************************)
\* C20: in one page load configMerged is called at most once, by at most one
\* handler, however often init is called, and at most one getBidRequestData
\* call attaches a reaction to configMergedPromise.
C20_GateOnce ==
  /\ \A m \in DOMAIN merges : merges[m].merged <= 1
  /\ Cardinality({m \in DOMAIN merges : merges[m].merged > 0}) <= 1
  /\ Cardinality({a \in DOMAIN auctions : ~auctions[a].sync}) <= 1

(***************************************************************************)
(* Claims about the timeout race in the page (specification Spec).         *)
(***************************************************************************)
\* the handler m finishes in this step because the timer fired: the floors
\* chain it waited for has not settled
C21_TimedOut(m) ==
  /\ m \in DOMAIN merges /\ merges[m].phase = "awaitFloors"
  /\ fetches[merges[m].floor].phase # "resolved"
  /\ merges'[m].phase = "done"

\* the floors chain of a finished handler settles in this step
C21_LateFloors(m) ==
  /\ m \in DOMAIN merges /\ merges[m].phase = "done"
  /\ fetches[merges[m].floor].phase # "resolved"
  /\ fetches'[merges[m].floor].phase = "resolved"

\* C21: when the timer wins the race, the configuration the handler leaves is
\* the one it leaves for a floors fetch that resolved to undefined, and the
\* fetch goes on; when it completes later, its payload changes neither the
\* configuration nor the count of conf.setConfig calls.
C21_LatePayloadDropped ==
  [][\A m \in 1..MaxReinits :
       /\ C21_TimedOut(m) =>
            LET outright == getFloorsConfig(Undefined, fetches[merges[m].cfg].value,
                                            confFloors)
            IN /\ fetches'[merges[m].floor] = fetches[merges[m].floor]
               /\ confFloors' \in {Get(outright.value, "floors"),
                                   StoredFloors(fetches[merges[m].cfg].value, confFloors)}
               /\ setConfigCalls' > setConfigCalls =>
                    confFloors' = Get(outright.value, "floors")
       /\ C21_LateFloors(m) =>
            /\ confFloors' = confFloors
            /\ setConfigCalls' = setConfigCalls
            /\ merges' = merges]_vars

\* the timer fired, the default payload was installed, and the floors fetch
\* completed afterwards with its body
C21_Witness ==
  \E m \in DOMAIN merges :
    /\ merges[m].path = "installed"
    /\ fetches[merges[m].floor].phase = "resolved"
    /\ fetches[merges[m].floor].value = FloorsA
    /\ Get(Get(confFloors, "data"), "currency") = Str("USD")
    /\ Get(Get(confFloors, "data"), "values") = EmptyObj

\* the handler m finishes in this step with the value of the floors chain
C22_BothCompleted(m) ==
  /\ m \in DOMAIN merges /\ merges[m].phase = "awaitFloors"
  /\ fetches[merges[m].floor].phase = "resolved"
  /\ merges'[m].phase = "done"

\* C22: whichever of the two fetches completes first, the handler is past its
\* wait for the config fetch only when that fetch has completed, and when the
\* floors fetch completes before the timer the configuration it leaves is
\* determined by the two payloads alone.
C22_OrderIndependent ==
  /\ [](\A m \in DOMAIN merges :
          merges[m].phase # "awaitConfig" => fetches[merges[m].cfg].phase = "resolved")
  /\ [][\A m \in 1..MaxReinits :
          C22_BothCompleted(m) =>
            LET both == getFloorsConfig(fetches[merges[m].floor].value,
                                        fetches[merges[m].cfg].value, confFloors)
            IN /\ confFloors' \in {Get(both.value, "floors"),
                                   StoredFloors(fetches[merges[m].cfg].value, confFloors)}
               /\ setConfigCalls' > setConfigCalls =>
                    confFloors' = Get(both.value, "floors")]_vars

\* both fetches completed and the fetched floor data was installed under the
\* plugin's skipRate
C22_Witness ==
  \E m \in DOMAIN merges :
    /\ merges[m].path = "installed"
    /\ fetches[merges[m].cfg].phase = "resolved"
    /\ fetches[merges[m].floor].value = FloorsA
    /\ Get(Get(confFloors, "data"), "currency") = Str("EUR")
    /\ Get(Get(confFloors, "data"), "skipRate") = Num(20)

(***************************************************************************)
(* Claims about the timer of withTimeout (specification FairSpecTimeout).  *)
(***************************************************************************)
\* C23: for ms > 0 clearTimeout is called exactly once on the timer, whichever
\* branch wins the race, also for an operation that settles after the timeout
\* and for one that never settles.
C23_TimerClearedOnce ==
  /\ [](WithTimeoutCalled => ret.cleared <= 1)
  /\ (WithTimeoutCalled /\ call.ms > 0) ~> (WithTimeoutCalled /\ ret.cleared = 1)

\* for ms > 0 the timer is cleared once when the operation has settled, before
\* or after the timeout, and is never left armed then (holds under SpecTimeout)
SettledOperationClearsTimer ==
  (WithTimeoutCalled /\ call.ms > 0) =>
    /\ ret.cleared <= 1
    /\ ret.reacted <=> ret.cleared = 1
    /\ (ret.reacted \/ ret.fired) => ret.timer = -1

(***************************************************************************)
(* Claims about the merge order of getFloorsConfig (specification          *)
(* SpecMerge).                                                             *)
(***************************************************************************)
\* getFloorsConfig returns a floors block in this step
C24_Merged ==
  /\ ret = NoCall /\ ret' # NoCall /\ ret'.op = "getFloorsConfig"
  /\ ~ret'.threw /\ ret'.value # Undefined

\* the block returned: the plugin's value for every key of both sources, the
\* computed payload under data, the six functions under additionalSchemaFields
C24_PluginWins ==
  LET page == Spread(Coalesce(confFloors, EmptyObj))
      plugin == PluginConfigOf(call.profileConfigs).f
      out == Get(ret'.value, "floors").f
      fetched == call.floorsData \notin {Undefined, Null}
  IN /\ \A k \in (DOMAIN page \cap DOMAIN plugin) \ {"data", "additionalSchemaFields"} :
          out[k] = plugin[k]
     /\ Get(out["data"], "currency") =
          (IF fetched THEN Get(call.floorsData, "currency") ELSE Str("USD"))
     /\ DOMAIN out["additionalSchemaFields"].f =
          {"deviceType", "timeOfDay", "browser", "os", "utm", "country"}
     /\ \A k \in DOMAIN out["additionalSchemaFields"].f :
          out["additionalSchemaFields"].f[k].t = "function"

\* C24: in the floors block getFloorsConfig returns the plugin's value wins
\* for every key of both sources, data and additionalSchemaFields hold the
\* computed payload and the six functions, and an endpoint key of the
\* page-level configuration is not in the block.
C24_MergeOrder ==
  [][C24_Merged =>
       /\ C24_PluginWins
       /\ ("endpoint" \in DOMAIN Spread(Coalesce(confFloors, EmptyObj))
           /\ "endpoint" \notin DOMAIN PluginConfigOf(call.profileConfigs).f)
            => "endpoint" \notin DOMAIN Get(ret'.value, "floors").f]_vars

\* the same with a page-level endpoint that is truthy (holds under SpecMerge)
TruthyEndpointDropped ==
  [][C24_Merged =>
       /\ C24_PluginWins
       /\ (Truthy(Get(confFloors, "endpoint"))
           /\ "endpoint" \notin DOMAIN PluginConfigOf(call.profileConfigs).f)
            => "endpoint" \notin DOMAIN Get(ret'.value, "floors").f]_vars

(***************************************************************************)
(* Claims about the data payload of getFloorsConfig (specification         *)
(* SpecMerge).                                                             *)
(***************************************************************************)
C25_Returned ==
  ret # NoCall /\ ret.op = "getFloorsConfig" /\ ~ret.threw /\ ret.value # Undefined

\* the payload when no floor data was fetched: the template with the
\* publisher's defaultValues as values, under the plugin's skipRate when set
C25_DefaultPayload ==
  LET plugin == PluginConfigOf(call.profileConfigs)
      values == IF Get(plugin, "defaultValues") \in {Undefined, Null}
                THEN EmptyObj ELSE Get(plugin, "defaultValues")
  IN Obj([currency |-> Str("USD"),
          skipRate |-> IF "skipRate" \in DOMAIN plugin.f
                       THEN plugin.f["skipRate"] ELSE Num(0),
          schema |-> Obj([fields |-> Arr(<<"mediaType", "size">>)]),
          values |-> values])

\* C25 as stated: with no fetched floor data the payload is the default
\* template with values equal to defaultValues; with fetched floor data the
\* payload still holds every default value the fetched data does not replace;
\* defaultValues is no key of the block returned.
C25_AsStated ==
  C25_Returned =>
    /\ call.floorsData \in {Undefined, Null} => MergedData(ret) = C25_DefaultPayload
    /\ call.floorsData.t = "object" =>
         \A k \in DOMAIN Get(C25_DefaultPayload, "values").f :
           k \in DOMAIN Get(MergedData(ret), "values").f
    /\ "defaultValues" \notin DOMAIN Get(ret.value, "floors").f

\* C25, amended: with no fetched floor data the payload is the default
\* template with values equal to defaultValues; with fetched floor data the
\* payload is the fetched data alone, under the plugin's skipRate when set,
\* and the defaults have no part in it; defaultValues is no key of the block.
C25_DefaultsAreFallback ==
  C25_Returned =>
    /\ call.floorsData \in {Undefined, Null} => MergedData(ret) = C25_DefaultPayload
    /\ call.floorsData.t = "object" =>
         LET plugin == PluginConfigOf(call.profileConfigs)
         IN /\ DOMAIN MergedData(ret).f \subseteq DOMAIN call.floorsData.f \cup {"skipRate"}
            /\ \A k \in DOMAIN call.floorsData.f \ {"skipRate"} :
                 MergedData(ret).f[k] = call.floorsData.f[k]
            /\ "skipRate" \notin DOMAIN plugin.f => MergedData(ret) = call.floorsData
    /\ "defaultValues" \notin DOMAIN Get(ret.value, "floors").f

\* no floor data fetched, defaultValues {banner: 1, video: 2}: they are the
\* values of the payload, and the block has no defaultValues key
C25_Witness ==
  /\ C25_Returned
  /\ call.floorsData = Undefined
  /\ Get(MergedData(ret), "values") = Obj([banner |-> Num(1), video |-> Num(2)])
  /\ Get(MergedData(ret), "currency") = Str("USD")
  /\ Get(Get(ret.value, "floors"), "floorMin") = Num(2)

(***************************************************************************)
(* Claims about _country (specification SpecFetch: ret.outcome and ret.cc  *)
(* are the outcome and the country_code header of the last attempt).       *)
(***************************************************************************)
\* an attempt of the chain settles in this step
C26_AttemptSettles ==
  fetches[1].phase = "fetching" /\ fetches'[1] # fetches[1]

\* C26: _country is changed only by a FLOORS attempt whose response status is
\* OK, which sets it to the first code of the country_code header, or to
\* undefined when the header is absent; a CONFIGS fetch and a FLOORS attempt
\* that fails with a network error or a non-OK status leave it unchanged.
C26_CountryFrame ==
  [][/\ country' # country =>
          /\ C26_AttemptSettles
          /\ call.type = "FLOORS"
          /\ ret'.outcome \in {"ok", "bad_json"}
     /\ C26_AttemptSettles =>
          IF call.type = "FLOORS" /\ ret'.outcome \in {"ok", "bad_json"}
          THEN country' = IF ret'.cc = <<>> THEN Undefined ELSE Str(ret'.cc[1])
          ELSE country' = country]_vars

\* a FLOORS attempt failed and left DE in place, and a later attempt with
\* status OK and the header IN,US replaced it by IN
C26_Witness ==
  /\ call.op = "fetchData"
  /\ call.type = "FLOORS"
  /\ ret.attempts > 1
  /\ ret.outcome = "ok"
  /\ ret.cc = <<"IN", "US">>
  /\ country = Str("IN")
  /\ fetches[1].phase = "resolved"

(***************************************************************************)
(* Claims about memoization of the derived signals (specification          *)
(* SpecTimeOfDay: the local clock moves between two calls).                *)
(***************************************************************************)
\* C27: a derived signal is memoized: every call during a page load returns
\* the value computed by the first call, even when the clock hour changes
\* between the calls.  Stated for the time-of-day bucket.
C27_Memoized ==
  [][(ret # NoCall /\ ret' # NoCall /\ ret'.calls > ret.calls)
       => ret'.value = ret.value]_vars

\* what the code does instead: every call computes the bucket of the hour at
\* which it is made
TimeOfDayFollowsClock ==
  ret # NoCall => ret.value = getCurrentTimeOfDay(ret.at)

(***************************************************************************)
(* Claims about the fragment the Summarizer getBidRequestData writes       *)
(* (specification SpecSummarizer).                                         *)
(***************************************************************************)
\* reqBidsConfigObj.ortb2Fragments.global as the caller passed it
C28_GlobalBefore ==
  Get(Get(call.reqBidsConfigObj, "ortb2Fragments"), "global")

\* site.content, site.cat or user is present in an object
C28_HasSummaryFields(global) ==
  /\ global.t = "object"
  /\ \/ "user" \in DOMAIN global.f
     \/ /\ "site" \in DOMAIN global.f
        /\ global.f["site"].t = "object"
        /\ {"content", "cat"} \cap DOMAIN global.f["site"].f # {}

\* C28: when getBidRequestData obtains no summary (API unavailable, summarize()
\* throwing or rejecting, timeout, falsy summary) it leaves
\* ortb2Fragments.global unchanged; site.content.data, site.cat and user.data
\* are in it only when a summary was obtained.
C28_NoSummaryNoWrite ==
  (SummarizerCalled("getBidRequestData") /\ ret.phase = "done") =>
    /\ ~Truthy(ret.fcs.value) => ret.global = C28_GlobalBefore
    /\ C28_HasSummaryFields(ret.global) =>
         /\ Truthy(ret.fcs.value)
         /\ Get(Get(Get(ret.global, "site"), "content"), "data").t = "array"
         /\ Get(Get(ret.global, "site"), "cat").t = "array"
         /\ Get(Get(ret.global, "user"), "data").t = "array"

\* summarize() stayed pending until the timeout: the callback ran and the
\* fragment {site: {page: 'p'}} is as it was
C28_Witness ==
  /\ SummarizerCalled("getBidRequestData")
  /\ ret.phase = "done"
  /\ ret.race = Rejected(Str("Summary request timed out"))
  /\ ret.fcs = Fulfilled(Null)
  /\ ret.calls = 1
  /\ ret.global = Obj([site |-> Obj([page |-> Str("p")])])
  /\ ret.global = C28_GlobalBefore

(***************************************************************************)
(* Claims about the country the PubMatic getBidRequestData writes          *)
(* (specification Spec).                                                   *)
(***************************************************************************)
\* C29: after the gate resolves getBidRequestData calls continueAuction and
\* then writes user.ext.ctr = _country under ortb2Fragments.bidder.pubmatic
\* if and only if _country is non-empty at that moment and continueAuction
\* did not throw; no other bidder's fragment is modified, and when
\* continueAuction throws nothing is written but the callback is invoked.
C29_CountryWritten ==
  [][\A a \in DOMAIN auctions :
       (auctions[a].phase = "awaitGate" /\ auctions'[a].phase # "awaitGate") =>
         LET before == auctions[a].bidder
             after == auctions'[a].bidder
             written == ~auctions'[a].continueThrew /\ Truthy(country)
         IN /\ configMergedPromise = "resolved"
            /\ auctions'[a].continued
            /\ auctions'[a].calls = auctions[a].calls + 1
            /\ written =>
                 /\ Get(Get(Get(Get(after, SUBMODULE_NAME), "user"), "ext"), "ctr")
                      = country
                 /\ DOMAIN after.f = DOMAIN before.f \cup {SUBMODULE_NAME}
            /\ ~written => after = before
            /\ \A k \in DOMAIN before.f \ {SUBMODULE_NAME} : after.f[k] = before.f[k]]_vars

\* the country IN was written next to the fragment of another bidder, which
\* still holds its own ctr
C29_Witness ==
  \E a \in DOMAIN auctions :
    /\ auctions[a].phase = "done"
    /\ auctions[a].continued
    /\ ~auctions[a].continueThrew
    /\ auctions[a].calls = 1
    /\ country = Str("IN")
    /\ auctions[a].bidder =
         Obj([pubmatic |-> Obj([user |-> Obj([ext |-> Obj([ctr |-> Str("IN")])])]),
              other |-> Obj([user |-> Obj([ext |-> Obj([ctr |-> Str("ZZ")])])])])

(***************************************************************************)
(* Claims about termination of chunk (specification SpecChunk).  The loop  *)
(* terminates when every iteration it still makes is one of at most        *)
(* array.length iterations: array.length - i is then a variant.            *)
(***************************************************************************)
C30_IterationAhead ==
  /\ call.op = "chunk" /\ ret # NoCall /\ ret.phase = "loop"
  /\ LoopContinues(ret.i, Len(ret.array), call.size)

\* C30: chunk(array, size) terminates and returns an array for every array
\* and every integer size, size 0 and negative sizes included.
C30_Terminates ==
  C30_IterationAhead => ret.i < Len(ret.array)

\* what the code does: the bound holds unless size is 0 and the array is not
\* empty, and a call with a negative size or an empty array returns []
ChunkTerminatesUnlessSizeZero ==
  /\ (C30_IterationAhead /\ (call.size # 0 \/ Len(ret.array) = 0))
       => ret.i < Len(ret.array)
  /\ (call.op = "chunk" /\ ret # NoCall /\ ret.phase = "returned"
        /\ (call.size < 0 \/ Len(ret.array) = 0))
       => ret.newArray = <<>>
  /\ (call.op = "chunk" /\ ret # NoCall /\ call.size = 0 /\ Len(ret.array) > 0)
       => ret.phase = "loop"

====
